---- MODULE Spec2Model ----
(***************************************************************************)
(* Model of touchpadlib/touchpadlib.c: the event batch reader              *)
(* fetch_touchpad_event and the record it fills (struct touchpad_event).   *)
(*                                                                         *)
(* One invocation of fetch_touchpad_event is followed through its control  *)
(* points: entry, the single read(2) with the short-read check and the     *)
(* reset, the iterations of the for loop, and the return.                  *)
(*                                                                         *)
(* Spec        fetches whose read delivers any short batch, with partial   *)
(*             reads and errors.                                           *)
(* SpecStream  fetches from a device modelled as the kernel's event queue, *)
(*             with batches up to and beyond the 64 records of the buffer. *)
(* SpecInit    initalize_touchpadlib_usage with scan_devices, the open,    *)
(*             print_device_info and test_grab.                            *)
(***************************************************************************)
EXTENDS Integers, Naturals, Sequences, FiniteSets, TLC

(* ---------------- program constants ---------------- *)

\* sizeof(struct input_event) on LP64 Linux: 16 (timeval) + 2 + 2 + 4.
RecSize == 24

\* struct input_event ev[64]
BufCap == 64

\* <linux/input.h> event types and absolute axis codes used by the reader.
EV_SYN == 0
SYN_REPORT == 0
EV_KEY == 1
EV_ABS == 3
ABS_X == 0
ABS_Y == 1
ABS_PRESSURE == 24

\* An absolute axis code the reader does not track (ABS_MT_POSITION_X).
ABS_MT_POSITION_X == 53

\* <stdlib.h>
EXIT_FAILURE == 1

(* ---------------- bounds of the model ---------------- *)

\* Largest number of complete records one read delivers in the model.
MaxBatch == 3

\* Events the device stream holds beyond one full buffer of BufCap records.
MaxExtra == 6

\* Largest N of a /dev/input/eventN in the model.
MaxDevNum == 3

(* ---------------- input domains ---------------- *)

\* struct timeval values carried by raw events: (tv_sec, tv_usec).
T1 == <<10, 500>>
T2 == <<11, 0>>
Times == {T1, T2}

\* A struct input_event.
InputEvent(t, c, v, tm) ==
    [type |-> t, code |-> c, value |-> v, sec |-> tm[1], usec |-> tm[2]]

\* Events of the three tracked axes; -1 is a legal value of a signed axis.
TrackedEvents ==
    { InputEvent(EV_ABS, ABS_X, v, tm) : v \in {-1, 100, 512}, tm \in Times }
      \cup { InputEvent(EV_ABS, ABS_Y, 300, tm) : tm \in Times }
      \cup { InputEvent(EV_ABS, ABS_PRESSURE, 50, tm) : tm \in Times }

\* Events the reader must ignore: a sync marker (SYN_REPORT, code 0, which is
\* numerically ABS_X), a key whose code is numerically ABS_PRESSURE, and an
\* absolute axis that is not tracked.
IrrelevantEvents ==
    { InputEvent(EV_SYN, SYN_REPORT, 0, tm) : tm \in Times }
      \cup { InputEvent(EV_KEY, ABS_PRESSURE, 1, tm) : tm \in Times }
      \cup { InputEvent(EV_ABS, ABS_MT_POSITION_X, 7, tm) : tm \in Times }

Events == TrackedEvents \cup IrrelevantEvents

\* What lies in the buffer slot of a record the read filled only in part:
\* the bytes that arrived followed by whatever the stack held.
PartialEvents == { InputEvent(EV_ABS, ABS_X, 512, T2) }

\* Numbers of trailing bytes after the last complete record.
Remainders == {0, RecSize - 1}

\* Contents of a struct touchpad_event that was never filled (malloc).
FreshEvents ==
    { [x |-> vx, y |-> -1, pressure |-> -1, seconds |-> 0, useconds |-> 0] :
        vx \in {-1, 100} }

(* ---------------- state ---------------- *)

VARIABLES
    pc,       \* control point of fetch_touchpad_event
    fdopen,   \* whether the descriptor fd refers to an open device
    event,    \* the caller's struct touchpad_event
    entryx,   \* event->x when the current call was entered
    rd,       \* the local rd: what read(2) returned
    ev,       \* the local buffer ev[]: the records the read touched
    i,        \* the loop index
    reads,    \* read(2) calls issued by the current invocation
    ret,      \* the value returned by the last invocation
    \* the input device behind fd, as a stream of events
    pos,      \* events the device has handed to read(2) so far
    pending,  \* events queued in the device, not yet read
    \* initalize_touchpadlib_usage with scan_devices and test_grab
    ipc,      \* control point of the initialisation
    present,  \* the N for which /dev/input/eventN exists
    ndev,     \* scan_devices: what scandir returned
    namelist, \* scan_devices: the entries found, in versionsort order
    si,       \* scan_devices: the loop index i
    sfd,      \* scan_devices: the descriptor fd of the current iteration
    devnum,   \* scan_devices: the number the user entered
    filename, \* the N of the "/dev/input/eventN" string; <<>> is NULL
    ifd,      \* initalize_touchpadlib_usage: the local fd
    fds,      \* the descriptors open in the process
    grabbed,  \* whether the process holds the grab on the device
    trace,    \* the system calls of the initialisation and their outcomes
    iret      \* the value initalize_touchpadlib_usage returned

fetchvars == <<pc, fdopen, event, entryx, rd, ev, i, reads, ret>>
devvars == <<pos, pending>>
initvars ==
    <<ipc, present, ndev, namelist, si, sfd, devnum, filename, ifd, fds,
      grabbed, trace, iret>>

vars == <<fetchvars, devvars, initvars>>

(* ---------------- pure helpers ---------------- *)

\* Variants of reset_touchpad_event that forget fields.
resetKeepsAxes(e) == [e EXCEPT !.seconds = 0, !.useconds = 0]
resetKeepsPressure(e) ==
    [x |-> -1, y |-> -1, pressure |-> e.pressure, seconds |-> 0, useconds |-> 0]
\* reset_touchpad_event: all three axes absent (-1), time zero.
reset_touchpad_event(e) ==
    [x |-> -1, y |-> -1, pressure |-> -1, seconds |-> 0, useconds |-> 0]

\* Variant: the comparison without the (int) cast, rd converted to unsigned.
IsShortReadUnsigned(r) == (IF r < 0 THEN 2147483647 ELSE r) < RecSize
\* rd < (int) sizeof(struct input_event), a signed comparison.
IsShortRead(r) == r < RecSize

\* Variants: the loop bound taken inclusive (i <= rd / sizeof); the record
\* count rounded up, counting a partial trailing record.
NRecordsInclusive(r) == r \div RecSize + 1
NRecordsRoundUp(r) == (r + RecSize - 1) \div RecSize
\* rd / sizeof(struct input_event), evaluated for rd >= RecSize.
NRecords(r) == r \div RecSize

\* Variants: the timestamp stored on every iteration, or on the second.
SetTimeAlways(e, idx, in) == [e EXCEPT !.seconds = in.sec, !.useconds = in.usec]
SetTimeOffByOne(e, idx, in) ==
    IF idx = 1
    THEN [e EXCEPT !.seconds = in.sec, !.useconds = in.usec]
    ELSE e
\* if (i == 0) { event->seconds = ...; event->useconds = ...; }
SetTime(e, idx, in) ==
    IF idx = 0
    THEN [e EXCEPT !.seconds = in.sec, !.useconds = in.usec]
    ELSE e

\* Variants: the code tested without the type; the first value of an axis kept.
SetAxisAnyType(e, in) ==
    IF in.code = ABS_X THEN [e EXCEPT !.x = in.value]
    ELSE IF in.code = ABS_Y THEN [e EXCEPT !.y = in.value]
    ELSE IF in.code = ABS_PRESSURE THEN [e EXCEPT !.pressure = in.value]
    ELSE e
SetAxisFirstWins(e, in) ==
    IF in.type = EV_ABS
    THEN IF in.code = ABS_X /\ e.x = -1 THEN [e EXCEPT !.x = in.value]
         ELSE IF in.code = ABS_Y /\ e.y = -1 THEN [e EXCEPT !.y = in.value]
         ELSE IF in.code = ABS_PRESSURE /\ e.pressure = -1
              THEN [e EXCEPT !.pressure = in.value]
         ELSE e
    ELSE e
\* if (type == EV_ABS) { if (code == ABS_X) ... else if ... }
SetAxis(e, in) ==
    IF in.type = EV_ABS
    THEN IF in.code = ABS_X THEN [e EXCEPT !.x = in.value]
         ELSE IF in.code = ABS_Y THEN [e EXCEPT !.y = in.value]
         ELSE IF in.code = ABS_PRESSURE THEN [e EXCEPT !.pressure = in.value]
         ELSE e
    ELSE e

\* The body of the for loop for index idx and record in = ev[idx].
LoopBody(e, idx, in) == SetAxis(SetTime(e, idx, in), in)

\* What read(fd, ev, sizeof(struct input_event) * 64) can deliver: n complete
\* records followed by r bytes of a further one. The request is for BufCap
\* records, so no more than BufCap complete records and no trailing bytes
\* after the BufCap-th.
BatchSizes == 0 .. (IF MaxBatch < BufCap THEN MaxBatch ELSE BufCap)
TrailingBytes(n) ==
    IF n = 0 THEN 0 .. (RecSize - 1)
    ELSE IF n = BufCap THEN {0}
    ELSE Remainders

\* The buffer slots the read wrote: the complete records b, then the slot
\* holding the partial record p when r > 0.
Buffer(b, r, p) == IF r = 0 THEN b ELSE Append(b, p)

\* The slot ev[idx] as the loop body reads it: the record the read put there,
\* or, for a slot the read did not write, whatever the stack holds.
Slot(buf, idx) ==
    IF idx + 1 \in DOMAIN buf THEN {buf[idx + 1]} ELSE PartialEvents

(* ---------------- initial state ---------------- *)

\* The device stream is not used: fetches draw their batches from Read.
DevIdle == pos = 0 /\ pending = 0

\* No initialisation is running.
InitIdle ==
    /\ ipc = "idle"
    /\ present = {}
    /\ ndev = 0
    /\ namelist = <<>>
    /\ si = 0
    /\ sfd = -1
    /\ devnum = 0
    /\ filename = <<>>
    /\ ifd = -1
    /\ fds = {0, 1, 2}
    /\ grabbed = FALSE
    /\ trace = <<>>
    /\ iret = 0


Init ==
    /\ pc = "init"
    /\ fdopen \in BOOLEAN
    /\ event \in FreshEvents
    /\ entryx = event.x
    /\ rd = 0
    /\ ev = <<>>
    /\ i = 0
    /\ reads = 0
    /\ ret = 0
    /\ DevIdle
    /\ InitIdle

(* ---------------- fetch_touchpad_event ---------------- *)

\* The caller invokes fetch_touchpad_event(fd, event); the locals hold
\* nothing yet.
Call ==
    /\ pc \in {"init", "done"}
    /\ pc' = "read"
    /\ entryx' = event.x
    /\ rd' = 0
    /\ ev' = <<>>
    /\ i' = 0
    /\ reads' = 0
    /\ ret' = 0
    /\ UNCHANGED <<fdopen, event>>
    /\ UNCHANGED <<devvars, initvars>>

\* rd = read(fd, ev, sizeof(struct input_event) * 64): an error (-1, the only
\* outcome on a descriptor that is not open), or n complete records and r
\* further bytes.
Read ==
    \/ /\ rd' = -1
       /\ ev' = <<>>
    \/ /\ fdopen
       /\ \E n \in BatchSizes, p \in PartialEvents :
            \E b \in [1 .. n -> Events], r \in TrailingBytes(n) :
              /\ rd' = n * RecSize + r
              /\ ev' = Buffer(b, r, p)

\* The read, the short-read check with its return 1, and on the success path
\* reset_touchpad_event(event) and the loop initialisation i = 0.
\*
\* Variants: a second read after a short one; the descriptor closed on
\* failure; the record reset before the short-read check.
FetchReadResetFirst ==
    /\ pc = "read"
    /\ reads' = reads + 1
    /\ Read
    /\ event' = reset_touchpad_event(event)
    /\ IF IsShortRead(rd')
       THEN /\ pc' = "done"
            /\ ret' = 1
            /\ UNCHANGED i
       ELSE /\ i' = 0
            /\ pc' = "loop"
            /\ UNCHANGED ret
    /\ UNCHANGED <<fdopen, entryx>>
    /\ UNCHANGED <<devvars, initvars>>
FetchReadRetry ==
    /\ pc = "read"
    /\ Read
    /\ IF IsShortRead(rd')
       THEN /\ reads' = reads + 2
            /\ pc' = "done"
            /\ ret' = 1
            /\ UNCHANGED <<event, i>>
       ELSE /\ reads' = reads + 1
            /\ event' = reset_touchpad_event(event)
            /\ i' = 0
            /\ pc' = "loop"
            /\ UNCHANGED ret
    /\ UNCHANGED <<fdopen, entryx>>
    /\ UNCHANGED <<devvars, initvars>>
FetchReadClose ==
    /\ pc = "read"
    /\ reads' = reads + 1
    /\ Read
    /\ IF IsShortRead(rd')
       THEN /\ pc' = "done"
            /\ ret' = 1
            /\ fdopen' = FALSE
            /\ UNCHANGED <<event, i>>
       ELSE /\ event' = reset_touchpad_event(event)
            /\ i' = 0
            /\ pc' = "loop"
            /\ UNCHANGED <<ret, fdopen>>
    /\ UNCHANGED entryx
    /\ UNCHANGED <<devvars, initvars>>
\* fetch_touchpad_event, lines 728-739.
FetchRead ==
    /\ pc = "read"
    /\ reads' = reads + 1
    /\ Read
    /\ IF IsShortRead(rd')
       THEN /\ pc' = "done"
            /\ ret' = 1
            /\ UNCHANGED <<event, i>>
       ELSE /\ event' = reset_touchpad_event(event)
            /\ i' = 0
            /\ pc' = "loop"
            /\ UNCHANGED ret
    /\ UNCHANGED <<fdopen, entryx>>
    /\ UNCHANGED <<devvars, initvars>>

\* One iteration of for (i = 0; i < rd / sizeof(struct input_event); i++).
LoopStep ==
    /\ pc = "loop"
    /\ i < NRecords(rd)
    /\ \E in \in Slot(ev, i) : event' = LoopBody(event, i, in)
    /\ i' = i + 1
    /\ UNCHANGED <<pc, fdopen, entryx, rd, ev, reads, ret>>
    /\ UNCHANGED <<devvars, initvars>>

\* The loop condition fails: return 0.
FetchReturn ==
    /\ pc = "loop"
    /\ ~(i < NRecords(rd))
    /\ pc' = "done"
    /\ ret' = 0
    /\ UNCHANGED <<fdopen, event, entryx, rd, ev, i, reads>>
    /\ UNCHANGED <<devvars, initvars>>

Next == Call \/ FetchRead \/ LoopStep \/ FetchReturn

Spec == Init /\ [][Next]_vars

TypeOK ==
    /\ pc \in {"init", "read", "loop", "done"}
    /\ fdopen \in BOOLEAN
    /\ rd \in -1 .. (BufCap * RecSize)
    /\ i \in 0 .. BufCap
    /\ ret \in {0, 1}

(* ---------------- fetches from a device stream ---------------- *)

\* The device behind fd as the kernel's event queue: events arrive in order,
\* a read hands over the oldest queued events, as many whole records as are
\* queued and fit into the buffer, and blocks while none is queued. The k-th
\* event of the stream is fixed, so that a record shows its place in it.
StreamEvent(k) ==
    IF k % 4 = 1 THEN InputEvent(EV_ABS, ABS_X, k, <<k, 500>>)
    ELSE IF k % 4 = 2 THEN InputEvent(EV_ABS, ABS_Y, k, <<k, 500>>)
    ELSE IF k % 4 = 3 THEN InputEvent(EV_ABS, ABS_PRESSURE, k, <<k, 500>>)
    ELSE InputEvent(EV_SYN, SYN_REPORT, 0, <<k, 500>>)

MaxStream == BufCap + MaxExtra
Bursts == {1, BufCap}

InitStream ==
    /\ pc = "init"
    /\ fdopen = TRUE
    /\ event \in FreshEvents
    /\ entryx = event.x
    /\ rd = 0
    /\ ev = <<>>
    /\ i = 0
    /\ reads = 0
    /\ ret = 0
    /\ DevIdle
    /\ InitIdle

\* The touchpad reports m further events while the caller is between two
\* fetches or blocked in the read.
Produce ==
    /\ pc \in {"init", "done", "read"}
    /\ \E m \in Bursts :
         /\ pos + pending + m <= MaxStream
         /\ pending' = pending + m
    /\ UNCHANGED <<fetchvars, pos, initvars>>

\* read(fd, ev, sizeof(struct input_event) * 64) on the stream: an error that
\* consumes nothing, or the oldest queued events, at most BufCap of them.
StreamRead ==
    \/ /\ rd' = -1
       /\ ev' = <<>>
       /\ UNCHANGED devvars
    \/ /\ pending > 0
       /\ LET n == IF pending < BufCap THEN pending ELSE BufCap
          IN /\ rd' = n * RecSize
             /\ ev' = [j \in 1 .. n |-> StreamEvent(pos + j)]
             /\ pos' = pos + n
             /\ pending' = pending - n

\* Variant: after its read the fetch drains what is still queued.
StreamFetchReadDrain ==
    /\ pc = "read"
    /\ reads' = reads + 1
    /\ \/ /\ rd' = -1
          /\ ev' = <<>>
          /\ UNCHANGED devvars
       \/ /\ pending > 0
          /\ LET n == IF pending < BufCap THEN pending ELSE BufCap
             IN /\ rd' = n * RecSize
                /\ ev' = [j \in 1 .. n |-> StreamEvent(pos + j)]
                /\ pos' = pos + pending
                /\ pending' = 0
    /\ IF IsShortRead(rd')
       THEN /\ pc' = "done"
            /\ ret' = 1
            /\ UNCHANGED <<event, i>>
       ELSE /\ event' = reset_touchpad_event(event)
            /\ i' = 0
            /\ pc' = "loop"
            /\ UNCHANGED ret
    /\ UNCHANGED <<fdopen, entryx>>
    /\ UNCHANGED initvars
\* fetch_touchpad_event, lines 728-739, reading from the stream.
StreamFetchRead ==
    /\ pc = "read"
    /\ reads' = reads + 1
    /\ StreamRead
    /\ IF IsShortRead(rd')
       THEN /\ pc' = "done"
            /\ ret' = 1
            /\ UNCHANGED <<event, i>>
       ELSE /\ event' = reset_touchpad_event(event)
            /\ i' = 0
            /\ pc' = "loop"
            /\ UNCHANGED ret
    /\ UNCHANGED <<fdopen, entryx>>
    /\ UNCHANGED initvars

NextStream == Produce \/ Call \/ StreamFetchRead \/ LoopStep \/ FetchReturn

SpecStream == InitStream /\ [][NextStream]_vars

(* ---------------- initalize_touchpadlib_usage ---------------- *)

\* stdin, stdout and stderr.
StdFds == {0, 1, 2}

\* open(2) returns the lowest descriptor that is not open.
LowestFree(F) ==
    CHOOSE n \in 0 .. Cardinality(F) :
        n \notin F /\ \A k \in 0 .. (n - 1) : k \in F

\* The eventN entries of /dev/input in versionsort order, as their numbers.
Sorted(S) ==
    CHOOSE f \in [1 .. Cardinality(S) -> S] :
        \A a, b \in 1 .. Cardinality(S) : a < b => f[a] < f[b]

\* What the user may type at the prompt (or what devnum holds when scanf
\* stored nothing).
Entered == -1 .. (MaxDevNum + 1)

\* The program starts initalize_touchpadlib_usage; no fetch is running.
InitInit ==
    /\ pc = "init"
    /\ fdopen = FALSE
    /\ event = [x |-> -1, y |-> -1, pressure |-> -1, seconds |-> 0, useconds |-> 0]
    /\ entryx = -1
    /\ rd = 0
    /\ ev = <<>>
    /\ i = 0
    /\ reads = 0
    /\ ret = 0
    /\ DevIdle
    /\ ipc = "scan"
    /\ present \in SUBSET (0 .. MaxDevNum)
    /\ ndev = 0
    /\ namelist = <<>>
    /\ si = 0
    /\ sfd = -1
    /\ devnum = 0
    /\ filename = <<>>
    /\ ifd = -1
    /\ fds = StdFds
    /\ grabbed = FALSE
    /\ trace = <<>>
    /\ iret = 0

\* scan_devices: ndev = scandir(...); if (ndev <= 0) return NULL.
IScan ==
    /\ ipc = "scan"
    /\ \E n \in {-1, Cardinality(present)} :
         /\ ndev' = n
         /\ IF n <= 0
            THEN /\ filename' = <<>>
                 /\ ipc' = "open"
                 /\ UNCHANGED namelist
            ELSE /\ namelist' = Sorted(present)
                 /\ ipc' = "list"
                 /\ UNCHANGED filename
    /\ si' = 0
    /\ UNCHANGED <<present, sfd, devnum, ifd, fds, grabbed, trace, iret>>
    /\ UNCHANGED <<fetchvars, devvars>>

\* scan_devices, one iteration up to the open: fd = open(fname, O_RDONLY);
\* if (fd < 0) continue.
IListOpen ==
    /\ ipc = "list"
    /\ si < ndev
    /\ \/ /\ si' = si + 1
          /\ UNCHANGED <<sfd, fds, ipc>>
       \/ /\ sfd' = LowestFree(fds)
          /\ fds' = fds \cup {LowestFree(fds)}
          /\ ipc' = "listclose"
          /\ UNCHANGED si
    /\ UNCHANGED <<present, ndev, namelist, devnum, filename, ifd, grabbed,
                   trace, iret>>
    /\ UNCHANGED <<fetchvars, devvars>>

\* scan_devices, the rest of the iteration: ioctl(EVIOCGNAME), fprintf,
\* close(fd), free.
IListClose ==
    /\ ipc = "listclose"
    /\ fds' = fds \ {sfd}
    /\ sfd' = -1
    /\ si' = si + 1
    /\ ipc' = "list"
    /\ UNCHANGED <<present, ndev, namelist, devnum, filename, ifd, grabbed,
                   trace, iret>>
    /\ UNCHANGED <<fetchvars, devvars>>

\* scan_devices after the loop: scanf("%d", &devnum);
\* if (devnum >= ndev || devnum < 0) return NULL;
\* asprintf(&filename, "%s/%s%d", "/dev/input", "event", devnum).
ISelect ==
    /\ ipc = "list"
    /\ ~(si < ndev)
    /\ \E d \in Entered :
         /\ devnum' = d
         /\ filename' = IF d >= ndev \/ d < 0 THEN <<>> ELSE <<d>>
    /\ ipc' = "open"
    /\ UNCHANGED <<present, ndev, namelist, si, sfd, ifd, fds, grabbed,
                   trace, iret>>
    /\ UNCHANGED <<fetchvars, devvars>>

\* if (!filename) return EXIT_FAILURE;
\* if ((fd = open(filename, O_RDONLY)) < 0) goto error.
\* The open fails for a file that does not exist and may fail for one that
\* does (EACCES).
IOpen ==
    /\ ipc = "open"
    /\ IF filename = <<>>
       THEN /\ iret' = EXIT_FAILURE
            /\ ipc' = "ret"
            /\ UNCHANGED <<ifd, fds, trace>>
       ELSE \/ /\ trace' = Append(trace, "open_fail")
               /\ ifd' = -1
               /\ iret' = -1
               /\ ipc' = "ret"
               /\ UNCHANGED fds
            \/ /\ filename[1] \in present
               /\ trace' = Append(trace, "open_ok")
               /\ ifd' = LowestFree(fds)
               /\ fds' = fds \cup {LowestFree(fds)}
               /\ ipc' = "info"
               /\ UNCHANGED iret
    /\ UNCHANGED <<present, ndev, namelist, si, sfd, devnum, filename, grabbed>>
    /\ UNCHANGED <<fetchvars, devvars>>

\* if (print_device_info(fd)) goto error; it fails when the EVIOCGVERSION
\* ioctl fails. error: free(filename); return -1.
IInfo ==
    /\ ipc = "info"
    /\ \/ /\ trace' = Append(trace, "info_fail")
          /\ iret' = -1
          /\ ipc' = "ret"
       \/ /\ trace' = Append(trace, "info_ok")
          /\ ipc' = "grab"
          /\ UNCHANGED iret
    /\ UNCHANGED <<present, ndev, namelist, si, sfd, devnum, filename, ifd,
                   fds, grabbed>>
    /\ UNCHANGED <<fetchvars, devvars>>

\* test_grab: rc = ioctl(fd, EVIOCGRAB, 1); a non-zero rc is returned and
\* initalize_touchpadlib_usage goes to error.
IGrab ==
    /\ ipc = "grab"
    /\ \/ /\ trace' = Append(trace, "grab_fail")
          /\ iret' = -1
          /\ ipc' = "ret"
          /\ UNCHANGED grabbed
       \/ /\ trace' = Append(trace, "grab_ok")
          /\ grabbed' = TRUE
          /\ ipc' = "ungrab"
          /\ UNCHANGED iret
    /\ UNCHANGED <<present, ndev, namelist, si, sfd, devnum, filename, ifd,
                   fds>>
    /\ UNCHANGED <<fetchvars, devvars>>

\* Variant: test_grab without the ungrab.
IUngrabSkipped ==
    /\ ipc = "ungrab"
    /\ iret' = ifd
    /\ ipc' = "ret"
    /\ UNCHANGED <<present, ndev, namelist, si, sfd, devnum, filename, ifd,
                   fds, grabbed, trace>>
    /\ UNCHANGED <<fetchvars, devvars>>
\* test_grab: if (!rc) ioctl(fd, EVIOCGRAB, 0); return rc;
\* then free(filename); return fd.
IUngrab ==
    /\ ipc = "ungrab"
    /\ trace' = Append(trace, "ungrab")
    /\ grabbed' = FALSE
    /\ iret' = ifd
    /\ ipc' = "ret"
    /\ UNCHANGED <<present, ndev, namelist, si, sfd, devnum, filename, ifd,
                   fds>>
    /\ UNCHANGED <<fetchvars, devvars>>

NextInit ==
    IScan \/ IListOpen \/ IListClose \/ ISelect \/ IOpen \/ IInfo \/ IGrab
      \/ IUngrab

SpecInit == InitInit /\ [][NextInit]_vars

(* ======================================================================= *)
(* Properties of fetch_touchpad_event                                      *)
(* ======================================================================= *)

\* The batch of one read: the complete records it delivered.
BatchLen == rd \div RecSize
Batch == SubSeq(ev, 1, BatchLen)

\* The invocation has returned 0.
Returned == pc = "done" /\ ret = 0

Axes == {ABS_X, ABS_Y, ABS_PRESSURE}
IsAxisEvent(in, c) == in.type = EV_ABS /\ in.code = c
IsTracked(in) == \E c \in Axes : IsAxisEvent(in, c)
HasAxis(c) == \E j \in 1 .. BatchLen : IsAxisEvent(ev[j], c)
LastOf(c) ==
    CHOOSE j \in 1 .. BatchLen :
        /\ IsAxisEvent(ev[j], c)
        /\ \A k \in (j + 1) .. BatchLen : ~IsAxisEvent(ev[k], c)
Field(e, c) ==
    IF c = ABS_X THEN e.x ELSE IF c = ABS_Y THEN e.y ELSE e.pressure

\* C1: the call returns 1 exactly when the read returned fewer bytes than one
\* record (an error, 0 bytes, or 1 .. RecSize-1 bytes), returns 0 for every
\* count of at least one record, and returns nothing else.
C1_ShortReadIff ==
    pc = "done" => /\ ret \in {0, 1}
                   /\ (ret = 1 <=> rd < RecSize)

\* A read of one byte less than a record was refused.
C1_Witness == pc = "done" /\ ret = 1 /\ rd = RecSize - 1 /\ fdopen

\* C2: after a successful fetch, each axis that occurs in the batch holds the
\* value of its last event in batch order.
C2_LastWriteWins ==
    Returned =>
        \A c \in Axes : HasAxis(c) => Field(event, c) = ev[LastOf(c)].value

\* Two X events with different values around a sync marker: the later wins.
C2_Witness ==
    /\ Returned
    /\ BatchLen = 3
    /\ IsAxisEvent(ev[1], ABS_X) /\ ev[1].value = 100
    /\ ev[2].type = EV_SYN
    /\ IsAxisEvent(ev[3], ABS_X) /\ ev[3].value = 512
    /\ event.x = 512

\* The batch holds exactly one X event, at index j, and no Y or pressure event.
OnlyXAt(j) ==
    /\ j \in 1 .. BatchLen
    /\ IsAxisEvent(ev[j], ABS_X)
    /\ \A k \in 1 .. BatchLen : k # j => ~IsTracked(ev[k])

\* C3 as stated: a batch with exactly one X event of value v at time (s, us),
\* anywhere among irrelevant events, yields {v, absent, absent, s, us}.
C3_Original ==
    Returned =>
        \A j \in 1 .. BatchLen :
            OnlyXAt(j) =>
                event = [x |-> ev[j].value, y |-> -1, pressure |-> -1,
                         seconds |-> ev[j].sec, useconds |-> ev[j].usec]

\* C3 amended: such a batch yields {v, absent, absent} with the timestamp of
\* the first event of the batch, which is (s, us) when the X event is first
\* or shares its timestamp with the first event.
C3_OnlyX ==
    Returned =>
        \A j \in 1 .. BatchLen :
            OnlyXAt(j) =>
                event = [x |-> ev[j].value, y |-> -1, pressure |-> -1,
                         seconds |-> ev[1].sec, useconds |-> ev[1].usec]

\* The single X event is second, behind an irrelevant event of another time.
C3_Witness ==
    /\ Returned
    /\ BatchLen >= 2
    /\ OnlyXAt(2)
    /\ ev[1].sec # ev[2].sec
    /\ event.x = ev[2].value
    /\ event.seconds = ev[1].sec

\* C4: a batch without any tracked event yields all three fields absent and
\* the timestamp of the first event.
C4_NoTracked ==
    (Returned /\ \A j \in 1 .. BatchLen : ~IsTracked(ev[j])) =>
        /\ event.x = -1 /\ event.y = -1 /\ event.pressure = -1
        /\ event.seconds = ev[1].sec /\ event.useconds = ev[1].usec

\* A batch of irrelevant events only, among them a sync marker and an
\* untracked absolute axis.
C4_Witness ==
    /\ Returned
    /\ BatchLen >= 2
    /\ \A j \in 1 .. BatchLen : ~IsTracked(ev[j])
    /\ \E j \in 1 .. BatchLen : ev[j].type = EV_SYN
    /\ \E j \in 1 .. BatchLen : ev[j].type = EV_ABS
    /\ event.x = -1

\* C5: an iteration changes a tracked field only for an EV_ABS event with that
\* field's code; any other (type, code) pair, also one whose code equals
\* ABS_X, ABS_Y or ABS_PRESSURE under another type, leaves x, y and pressure
\* alone, and no event makes the fetch fail once the read was long enough.
C5_Classification ==
    [][ pc = "loop" =>
          /\ pc' = "loop" =>
               /\ event'.x # event.x => IsAxisEvent(ev[i + 1], ABS_X)
               /\ event'.y # event.y => IsAxisEvent(ev[i + 1], ABS_Y)
               /\ event'.pressure # event.pressure
                    => IsAxisEvent(ev[i + 1], ABS_PRESSURE)
          /\ pc' = "done" => ret' = 0 ]_vars

\* The scenario X=512, Y=300, SYN_REPORT at (10, 500).
C5_Witness ==
    /\ Returned
    /\ ev = << InputEvent(EV_ABS, ABS_X, 512, T1),
               InputEvent(EV_ABS, ABS_Y, 300, T1),
               InputEvent(EV_SYN, SYN_REPORT, 0, T1) >>
    /\ event = [x |-> 512, y |-> 300, pressure |-> -1,
                seconds |-> 10, useconds |-> 500]

\* C6: from the end of the first iteration on, the timestamp is that of the
\* first event of the batch, whatever its type, and later events with another
\* timestamp do not change it.
C6_TimestampFirst ==
    ((pc = "loop" /\ i >= 1) \/ Returned) =>
        /\ event.seconds = ev[1].sec
        /\ event.useconds = ev[1].usec

\* First a key event, then a tracked event carrying another timestamp.
C6_Witness ==
    /\ Returned
    /\ BatchLen >= 2
    /\ ev[1].type = EV_KEY
    /\ IsTracked(ev[2])
    /\ <<ev[2].sec, ev[2].usec>> # <<ev[1].sec, ev[1].usec>>
    /\ <<event.seconds, event.useconds>> = <<ev[1].sec, ev[1].usec>>

\* The sample a batch determines.
SampleOf(c) == IF HasAxis(c) THEN ev[LastOf(c)].value ELSE -1

\* C7: the sample of a successful call is a function of that call's batch
\* alone, whatever the record held on entry: an axis set by an earlier call is
\* absent when the batch has no event for it.
C7_NoCarryOver ==
    Returned =>
        event = [x |-> SampleOf(ABS_X), y |-> SampleOf(ABS_Y),
                 pressure |-> SampleOf(ABS_PRESSURE),
                 seconds |-> ev[1].sec, useconds |-> ev[1].usec]

\* The record held x = 100 on entry, the batch has no X event, x is absent.
C7_Witness ==
    /\ Returned
    /\ entryx = 100
    /\ ~HasAxis(ABS_X)
    /\ HasAxis(ABS_Y)
    /\ event.x = -1

\* C8 as stated: after a successful fetch a field reads absent (-1) if and
\* only if the batch had no event for its axis, for every signed value.
C8_AbsentIff ==
    Returned =>
        \A c \in Axes :
            /\ Field(event, c) = -1 <=> ~HasAxis(c)
            /\ HasAxis(c) => Field(event, c) = ev[LastOf(c)].value

\* C9: every invocation issues exactly one read, on both paths.
C9_OneRead ==
    /\ pc = "read" => reads = 0
    /\ pc \in {"loop", "done"} => reads = 1

\* A read at end of stream was refused without a second read.
C9_Witness == pc = "done" /\ ret = 1 /\ rd = 0 /\ reads = 1

\* C10: no step of the fetch opens or closes the descriptor.
C10_HandleBorrowed == [][ fdopen' = fdopen ]_vars

\* A read error on an open descriptor: refused, and the descriptor is open.
C10_Witness == pc = "done" /\ ret = 1 /\ rd = -1 /\ fdopen

\* C12: when the read returns k >= 1 complete records and a partial one, the
\* fetch succeeds, the loop stops after exactly the k complete records, and
\* the sample is the one these k records determine: nothing of the partial
\* record reaches it.
C12_PartialIgnored ==
    (pc \in {"loop", "done"} /\ rd >= RecSize /\ rd % RecSize # 0) =>
        /\ i <= BatchLen
        /\ pc = "done" =>
             /\ ret = 0
             /\ i = BatchLen
             /\ \A c \in Axes : Field(event, c) = SampleOf(c)
             /\ <<event.seconds, event.useconds>> = <<ev[1].sec, ev[1].usec>>

\* One complete record without X, then 23 bytes of an X event of another
\* time: x stays absent.
C12_Witness ==
    /\ Returned
    /\ rd = 2 * RecSize - 1
    /\ Len(ev) = 2
    /\ ~IsAxisEvent(ev[1], ABS_X)
    /\ IsAxisEvent(ev[2], ABS_X)
    /\ ev[2].sec # ev[1].sec
    /\ event.x = -1
    /\ event.seconds = ev[1].sec

\* C14: a ShortRead return leaves all five fields of the caller's record as
\* they were, so a sample fetched earlier is still there.
C14_FailureKeepsRecord ==
    [][ (pc = "read" /\ pc' = "done" /\ ret' = 1) => event' = event ]_vars

\* A failed fetch after a successful one: the record still holds the sample.
C14_Witness ==
    /\ pc = "done" /\ ret = 1
    /\ event = [x |-> 512, y |-> 300, pressure |-> 50,
                seconds |-> 10, useconds |-> 500]

\* C13: whenever an iteration of the loop runs, its index i satisfies
\* 0 <= i < 64 and i < rd / RecSize and names a slot the read wrote; the index
\* only steps by one and never exceeds 64, so the loop ends after at most 64
\* iterations.
C13_IndexInBounds ==
    /\ [](pc = "loop" => (0 <= i /\ i <= BufCap /\ i <= rd \div RecSize))
    /\ [][ (pc = "loop" /\ i' # i) =>
             /\ i < BufCap
             /\ i < rd \div RecSize
             /\ (i + 1) \in DOMAIN ev
             /\ i' = i + 1 ]_vars

\* A full buffer of 64 records was folded while more events stayed queued.
C13_Witness ==
    /\ Returned
    /\ Len(ev) = BufCap
    /\ i = BufCap
    /\ pending > 0

\* The events of the stream that the last read handed over.
SliceFirst == pos - BatchLen + 1
StreamHas(c) == \E k \in SliceFirst .. pos : IsAxisEvent(StreamEvent(k), c)
StreamSample(c) ==
    IF StreamHas(c)
    THEN StreamEvent(CHOOSE k \in SliceFirst .. pos :
                        /\ IsAxisEvent(StreamEvent(k), c)
                        /\ \A l \in (k + 1) .. pos :
                             ~IsAxisEvent(StreamEvent(l), c)).value
    ELSE -1

\* C18: the device hands events over only in the one read of a call; a
\* successful call folds exactly the events that read took from the head of
\* the queue, in order and all of them, and its sample is the one they
\* determine; a failing call consumes nothing. So successive fetches see
\* successive stretches of the stream, and what did not fit into the 64
\* records stays queued for the next fetch.
C18_InOrderOnce ==
    /\ [](Returned =>
            /\ reads = 1
            /\ BatchLen >= 1
            /\ i = BatchLen
            /\ \A j \in 1 .. BatchLen : ev[j] = StreamEvent(SliceFirst + j - 1)
            /\ event = [x |-> StreamSample(ABS_X), y |-> StreamSample(ABS_Y),
                        pressure |-> StreamSample(ABS_PRESSURE),
                        seconds |-> StreamEvent(SliceFirst).sec,
                        useconds |-> StreamEvent(SliceFirst).usec])
    /\ [][ /\ pos' # pos =>
                /\ pc = "read" /\ pc' = "loop"
                /\ reads = 0 /\ reads' = 1
                /\ pos' - pos = rd' \div RecSize
           /\ pending' < pending => pos' - pos = pending - pending'
           /\ (pc = "read" /\ pc' = "done") => (pos' = pos /\ event' = event)
         ]_vars

\* 65 events were queued: the first fetch took 64 (its x was event 61), the
\* second fetch sees the 65th, an X event.
C18_Witness ==
    /\ Returned
    /\ pos = BufCap + 1
    /\ BatchLen = 1
    /\ ev[1] = StreamEvent(BufCap + 1)
    /\ entryx = StreamEvent(BufCap - 3).value
    /\ event.x = StreamEvent(BufCap + 1).value

(* ======================================================================= *)
(* Properties of initalize_touchpadlib_usage                               *)
(* ======================================================================= *)

InTrace(s) == \E k \in 1 .. Len(trace) : trace[k] = s

\* One of the failure paths was taken: no file name from scan_devices, or the
\* open, the device-info query or the grab failed.
InitFailed ==
    \/ filename = <<>>
    \/ InTrace("open_fail")
    \/ InTrace("info_fail")
    \/ InTrace("grab_fail")

\* C11: the initialisation returns -1 on every failure path, and a
\* non-negative value only as the descriptor of the device it opened.
C11_ReturnValue ==
    ipc = "ret" =>
        /\ InitFailed => iret = -1
        /\ iret >= 0 => (InTrace("open_ok") /\ iret = ifd /\ iret \in fds)

\* C15: the grab is attempted only right after a successful open and a
\* successful device-info query, and at most once; an ungrab follows a
\* successful grab at once and occurs in no other place; a failed grab makes
\* the initialisation return -1; the grab is held only between the two
\* ioctls, so never when the initialisation has returned.
C15_GrabOneShot ==
    /\ \A k \in 1 .. Len(trace) :
         /\ trace[k] \in {"grab_ok", "grab_fail"} =>
              /\ k = 3
              /\ trace[1] = "open_ok"
              /\ trace[2] = "info_ok"
         /\ trace[k] = "ungrab" => (k > 1 /\ trace[k - 1] = "grab_ok")
    /\ grabbed <=> ipc = "ungrab"
    /\ ipc = "ungrab" => trace[Len(trace)] = "grab_ok"
    /\ ipc = "ret" =>
         /\ InTrace("grab_ok") <=> InTrace("ungrab")
         /\ InTrace("grab_fail") => iret = -1
         /\ ~grabbed

\* The initialisation succeeded: grabbed, ungrabbed, descriptor returned.
C15_Witness ==
    /\ ipc = "ret"
    /\ trace = <<"open_ok", "info_ok", "grab_ok", "ungrab">>
    /\ ~grabbed
    /\ iret = ifd
    /\ iret \in fds

\* C16: when the initialisation returns, every descriptor it or scan_devices
\* opened is closed or is the one returned.
C16_NoLeak ==
    ipc = "ret" => \A d \in fds \ StdFds : (d = iret /\ d = ifd)

\* C17: scan_devices returns NULL when no device was found or the number
\* entered is outside [0, ndev-1]; otherwise the file it names is one of the
\* devices the scan found.
C17_SelectedDevice ==
    ipc = "open" =>
        IF ndev <= 0 \/ devnum \notin 0 .. (ndev - 1)
        THEN filename = <<>>
        ELSE filename # <<>> /\ filename[1] \in present

====
